---- MODULE Spec2Model ----
(***************************************************************************)
(* EPL data pipeline (catching_data.py, exporting_data.py): the fetcher    *)
(* api_get with its retry loop, the three parsers, the three validators,   *)
(* the exporter overwrite and the orchestrator run_pipeline.               *)
(*                                                                         *)
(* Python values are represented as follows.                               *)
(*   dict           a function whose DOMAIN is the set of keys present     *)
(*   list           a sequence                                             *)
(*   None | int     <<>> for None, <<n>> for the integer n                 *)
(*   DataFrame      [cols |-> set of column names, rows |-> sequence of    *)
(*                  functions from cols to values]                         *)
(*   api_get result [none |-> TRUE, list |-> <<>>] for None,               *)
(*                  [none |-> FALSE, list |-> data["response"]] otherwise  *)
(***************************************************************************)
EXTENDS Integers, Sequences, FiniteSets, TLC

VARIABLES
    apiKeySet,         \* API_KEY is a non-empty string (catching_data.py:14)
    configErrorLogged, \* the import guard logged "API configuration error"
    pc,                \* position of the running program
    ds,                \* index in Datasets of the dataset being processed
    max_retries,       \* api_get parameter
    attempt,           \* api_get loop variable
    history,           \* responses received by the current api_get call
    slept,             \* slept[i]: seconds slept after request i (0: no sleep)
    apiResult,         \* value returned by api_get
    df,                \* DataFrame returned by the parser / given to a validator
    verdict,           \* [result, log] of the last validator call
    dbConnected,       \* create_db_engine returned an engine
    pipeline_success,  \* run_pipeline local
    tables,            \* contents of the three destination tables
    fetchLog,          \* datasets whose get_* function has been called, in order
    stage,             \* per dataset: how far its processing got
    returned,          \* value returned by run_pipeline
    exitCode,          \* process exit code, -1 while running
    calls              \* overwrite calls made directly on a table, oldest first

vars == <<apiKeySet, configErrorLogged, pc, ds, max_retries, attempt, history,
          slept, apiResult, df, verdict, dbConnected, pipeline_success, tables,
          fetchLog, stage, returned, exitCode, calls>>

(***************************************************************************)
(* Bounds of the model.                                                    *)
(***************************************************************************)
MaxRows == 2      \* freely chosen rows of a table handed to a validator
MaxBudget == 4    \* largest max_retries a direct api_get call is given

(***************************************************************************)
(* Program constants.                                                      *)
(***************************************************************************)
ExpectedTeams == 20
RateLimitStatus == 429
RateLimitCooldown == 60
DefaultMaxRetries == 3
PointsPerWin == 3

Datasets == <<"standings", "scorers", "assists">>

\* 2 ** n, as Python computes it for n >= 0
RECURSIVE Pow2(_)
Pow2(n) == IF n <= 0 THEN 1 ELSE 2 * Pow2(n - 1)

Restrict(r, cs) == [c \in cs \cap DOMAIN r |-> r[c]]

(***************************************************************************)
(* VALIDATION FUNCTIONS (exporting_data.py:39-146).  Each returns the      *)
(* boolean result together with the messages it logged.                    *)
(***************************************************************************)
StandingsRequired == {"rank", "team", "points", "played", "wins", "draws", "losses"}

\* Series.duplicated().any(): some value of column c occurs in two rows
Duplicated(rows, c) ==
    \E i, j \in 1..Len(rows) : i < j /\ rows[i][c] = rows[j][c]

\* variant: the duplicate-team check is left out
validate_standings_no_dup_check(t) ==
    LET rows == t.rows
        warn == IF Len(rows) # ExpectedTeams THEN <<"WARNING expected 20 teams">> ELSE <<>>
    IN  IF StandingsRequired \ t.cols # {}
        THEN [result |-> FALSE, log |-> <<"ERROR missing required columns">>]
        ELSE IF \E i \in 1..Len(rows) : rows[i].points < 0
        THEN [result |-> FALSE, log |-> warn \o <<"ERROR negative points">>]
        ELSE IF ~(\A i \in 1..Len(rows) :
                    rows[i].points = rows[i].wins * PointsPerWin + rows[i].draws)
        THEN [result |-> FALSE, log |-> warn \o <<"ERROR points mismatch">>]
        ELSE IF ~(\A i \in 1..Len(rows) :
                    rows[i].played = rows[i].wins + rows[i].draws + rows[i].losses)
        THEN [result |-> FALSE, log |-> warn \o <<"ERROR games played mismatch">>]
        ELSE [result |-> TRUE, log |-> warn \o <<"INFO standings validation passed">>]

validate_standings(t) ==
    LET rows == t.rows
        warn == IF Len(rows) # ExpectedTeams THEN <<"WARNING expected 20 teams">> ELSE <<>>
    IN  IF StandingsRequired \ t.cols # {}
        THEN [result |-> FALSE, log |-> <<"ERROR missing required columns">>]
        ELSE IF Duplicated(rows, "team")
        THEN [result |-> FALSE, log |-> warn \o <<"ERROR duplicate teams">>]
        ELSE IF \E i \in 1..Len(rows) : rows[i].points < 0
        THEN [result |-> FALSE, log |-> warn \o <<"ERROR negative points">>]
        ELSE IF ~(\A i \in 1..Len(rows) :
                    rows[i].points = rows[i].wins * PointsPerWin + rows[i].draws)
        THEN [result |-> FALSE, log |-> warn \o <<"ERROR points mismatch">>]
        ELSE IF ~(\A i \in 1..Len(rows) :
                    rows[i].played = rows[i].wins + rows[i].draws + rows[i].losses)
        THEN [result |-> FALSE, log |-> warn \o <<"ERROR games played mismatch">>]
        ELSE [result |-> TRUE, log |-> warn \o <<"INFO standings validation passed">>]

\* validate_top_scorers and validate_top_assists differ only in the metric column
PlayerRequired(metric) == {"player", "team", metric, "appearances"}

\* variant: zero appearances are let through (< instead of <=)
validate_players_lenient_appearances(t, metric) ==
    LET rows == t.rows
        warn == IF Duplicated(rows, "player") THEN <<"WARNING duplicate players">> ELSE <<>>
    IN  IF PlayerRequired(metric) \ t.cols # {}
        THEN [result |-> FALSE, log |-> <<"ERROR missing required columns">>]
        ELSE IF Len(rows) = 0
        THEN [result |-> FALSE, log |-> <<"ERROR data is empty">>]
        ELSE IF \E i \in 1..Len(rows) : rows[i][metric] < 0
        THEN [result |-> FALSE, log |-> <<"ERROR negative metric">>]
        ELSE IF \E i \in 1..Len(rows) : rows[i].appearances < 0
        THEN [result |-> FALSE, log |-> <<"ERROR invalid appearances">>]
        ELSE [result |-> TRUE, log |-> warn \o <<"INFO validation passed">>]

validate_players(t, metric) ==
    LET rows == t.rows
        warn == IF Duplicated(rows, "player") THEN <<"WARNING duplicate players">> ELSE <<>>
    IN  IF PlayerRequired(metric) \ t.cols # {}
        THEN [result |-> FALSE, log |-> <<"ERROR missing required columns">>]
        ELSE IF Len(rows) = 0
        THEN [result |-> FALSE, log |-> <<"ERROR data is empty">>]
        ELSE IF \E i \in 1..Len(rows) : rows[i][metric] < 0
        THEN [result |-> FALSE, log |-> <<"ERROR negative metric">>]
        ELSE IF \E i \in 1..Len(rows) : rows[i].appearances <= 0
        THEN [result |-> FALSE, log |-> <<"ERROR invalid appearances">>]
        ELSE [result |-> TRUE, log |-> warn \o <<"INFO validation passed">>]

validate_top_scorers(t) == validate_players(t, "goals")

validate_top_assists(t) == validate_players(t, "assists")

\* the metric column of a player dataset
Metric(d) == IF Datasets[d] = "scorers" THEN "goals" ELSE "assists"

\* the validator run_pipeline applies to dataset d
Validator(d, t) ==
    IF Datasets[d] = "standings" THEN validate_standings(t)
    ELSE IF Datasets[d] = "scorers" THEN validate_top_scorers(t)
    ELSE validate_top_assists(t)

(***************************************************************************)
(* API HELPER WITH RETRY LOGIC (catching_data.py:35-93).                   *)
(*                                                                         *)
(* What one requests.get can produce: an exception raised by the call, or  *)
(* an HTTP response with a status code and a body.  decodes says whether   *)
(* response.json() can parse the body; body is the parsed object.  The     *)
(* value of the "response" key is <<>> for JSON null and <<list>> for a    *)
(* list.                                                                   *)
(***************************************************************************)
EmptyDict == [x \in {} |-> 0]

Resp(raises, status, decodes, body) ==
    [raises |-> raises, status |-> status, decodes |-> decodes, body |-> body]

Bodies(payloads) ==
    {[response |-> <<p>>] : p \in payloads}
    \cup {[response |-> <<p>>, errors |-> <<>>] : p \in payloads}
    \cup {[response |-> <<p>>, errors |-> <<"token">>] : p \in payloads}
    \cup {[errors |-> <<"token">>], [errors |-> <<>>], [message |-> <<"down">>]}
    \cup {[response |-> <<>>]}

Responses(payloads) ==
    {Resp("Timeout", 0, FALSE, EmptyDict), Resp("RequestException", 0, FALSE, EmptyDict)}
    \cup {Resp("none", RateLimitStatus, FALSE, EmptyDict), Resp("none", 500, FALSE, EmptyDict)}
    \cup {Resp("none", 200, FALSE, EmptyDict)}
    \cup {Resp("none", 200, TRUE, b) : b \in Bodies(payloads)}

\* variant: the check of the errors field is left out
BranchIgnoringErrors(r, jsonErrIsRequestException) ==
    IF r.raises = "Timeout" THEN "timeout"
    ELSE IF r.raises = "RequestException" THEN "request_exception"
    ELSE IF r.status = RateLimitStatus THEN "rate_limited"
    ELSE IF r.status >= 400 THEN "request_exception"
    ELSE IF ~r.decodes
    THEN (IF jsonErrIsRequestException THEN "request_exception" ELSE "unexpected")
    ELSE IF "response" \notin DOMAIN r.body THEN "no_response_field"
    ELSE IF r.body.response = <<>> THEN "unexpected"
    ELSE "ok"

\* variant: API-reported errors are retried like a transport failure
BranchRetryingErrors(r, jsonErrIsRequestException) ==
    IF r.raises = "Timeout" THEN "timeout"
    ELSE IF r.raises = "RequestException" THEN "request_exception"
    ELSE IF r.status = RateLimitStatus THEN "rate_limited"
    ELSE IF r.status >= 400 THEN "request_exception"
    ELSE IF ~r.decodes
    THEN (IF jsonErrIsRequestException THEN "request_exception" ELSE "unexpected")
    ELSE IF "response" \notin DOMAIN r.body THEN "no_response_field"
    ELSE IF "errors" \in DOMAIN r.body /\ r.body.errors # <<>> THEN "request_exception"
    ELSE IF r.body.response = <<>> THEN "unexpected"
    ELSE "ok"

\* The branch of the loop body that response r takes.  jsonErrIsRequestException:
\* whether the installed requests raises requests.exceptions.JSONDecodeError (a
\* RequestException, requests >= 2.27) or a plain ValueError from response.json().
Branch(r, jsonErrIsRequestException) ==
    IF r.raises = "Timeout" THEN "timeout"                          \* line 78
    ELSE IF r.raises = "RequestException" THEN "request_exception"  \* line 83
    ELSE IF r.status = RateLimitStatus THEN "rate_limited"          \* line 55
    ELSE IF r.status >= 400 THEN "request_exception"                \* line 61, HTTPError
    ELSE IF ~r.decodes                                              \* line 63
    THEN (IF jsonErrIsRequestException THEN "request_exception" ELSE "unexpected")
    ELSE IF "response" \notin DOMAIN r.body THEN "no_response_field"             \* line 66
    ELSE IF "errors" \in DOMAIN r.body /\ r.body.errors # <<>> THEN "api_errors" \* line 71
    ELSE IF r.body.response = <<>> THEN "unexpected"                \* line 75, len(None)
    ELSE "ok"                                                       \* line 76

\* the branches that end in the next loop iteration
Retried == {"rate_limited", "timeout", "request_exception"}

\* variant: the exponent counts only the earlier responses that were not 429
SleepAfterByFailureCount(branch, a, n) ==
    IF branch = "rate_limited" THEN RateLimitCooldown
    ELSE IF branch \in {"timeout", "request_exception"}
    THEN (IF a < n - 1
          THEN Pow2(Cardinality({i \in 1..Len(history) :
                                    history[i].status # RateLimitStatus}))
          ELSE 0)
    ELSE 0

\* variant: the backoff is slept after the final attempt too
SleepAfterAlways(branch, a, n) ==
    IF branch = "rate_limited" THEN RateLimitCooldown
    ELSE IF branch \in {"timeout", "request_exception"} THEN Pow2(a)
    ELSE 0

\* seconds slept in the branch taken on loop index a of n (0: sleep is not called)
SleepAfter(branch, a, n) ==
    IF branch = "rate_limited" THEN RateLimitCooldown               \* line 57
    ELSE IF branch \in {"timeout", "request_exception"}
    THEN (IF a < n - 1 THEN Pow2(a) ELSE 0)                         \* lines 80-81, 85-86
    ELSE 0

NoneResult == [none |-> TRUE, list |-> <<>>]

\* the value the branch returns
Returned(branch, r) ==
    IF branch = "ok" THEN [none |-> FALSE, list |-> r.body.response[1]] ELSE NoneResult

(***************************************************************************)
(* PARSERS (catching_data.py:98-245), the part of get_* after api_get      *)
(* returned.  A parser returns [raised, df]: raised says it raised         *)
(* ValueError, df is the DataFrame it returned otherwise.                  *)
(***************************************************************************)
EmptyFrame == [cols |-> {}, rows |-> <<>>]

Raise == [raised |-> TRUE, df |-> EmptyFrame]

\* pd.DataFrame(rows) for a non-empty list of dicts with the same keys
DataFrame(rows) == [cols |-> DOMAIN rows[1], rows |-> rows]

\* None where the API documents a nested object
Null == [null |-> TRUE]

\* lines 126-137 subscript None before any key is found missing: the TypeError
\* is not a KeyError, so it leaves the loop and reaches the except of line 149
TeamTypeError(t) ==
    /\ {"rank", "team"} \subseteq DOMAIN t
    /\ \/ t.team = Null
       \/ /\ "name" \in DOMAIN t.team
          /\ {"points", "all"} \subseteq DOMAIN t
          /\ \/ t.all = Null
             \/ /\ {"played", "win", "draw", "lose", "goals"} \subseteq DOMAIN t.all
                /\ t.all.goals = Null

\* no KeyError in lines 126-137
TeamKeysPresent(t) ==
    /\ {"rank", "team", "points", "all", "goalsDiff"} \subseteq DOMAIN t
    /\ "name" \in DOMAIN t.team
    /\ {"played", "win", "draw", "lose", "goals"} \subseteq DOMAIN t.all
    /\ {"for", "against"} \subseteq DOMAIN t.all.goals

StandingsRow(t) ==
    [rank |-> t.rank, team |-> t.team.name, points |-> t.points,
     played |-> t.all.played, wins |-> t.all.win, draws |-> t.all.draw,
     losses |-> t.all.lose, goals_for |-> t.all.goals.for,
     goals_against |-> t.all.goals.against, goal_difference |-> t.goalsDiff]

get_standings(result) ==
    IF result.none \/ result.list = <<>> THEN Raise                 \* line 108
    ELSE LET first == result.list[1]
             standings == IF "league" \in DOMAIN first
                             /\ "standings" \in DOMAIN first.league
                          THEN first.league.standings ELSE <<>>
         IN  IF standings = <<>> THEN Raise                         \* line 113
             ELSE IF standings[1] = <<>> THEN Raise                 \* line 119
             ELSE IF \E i \in 1..Len(standings[1]) : TeamTypeError(standings[1][i])
                  THEN Raise                                        \* line 149
             ELSE LET kept == SelectSeq(standings[1], TeamKeysPresent)  \* lines 124-140
                      rows == [i \in 1..Len(kept) |-> StandingsRow(kept[i])]
                  IN  IF rows = <<>> THEN Raise                     \* line 142
                      ELSE [raised |-> FALSE, df |-> DataFrame(rows)]

\* lines 173-184 subscript None before any KeyError, IndexError or null metric:
\* the TypeError leaves the loop and reaches the except of lines 196, 243
PlayerTypeError(p, key) ==
    /\ "statistics" \in DOMAIN p
    /\ p.statistics # <<>>
    /\ LET stats == p.statistics[1]
       IN  \/ stats = Null
           \/ /\ "goals" \in DOMAIN stats
              /\ \/ stats.goals = Null
                 \/ /\ key \in DOMAIN stats.goals
                    /\ stats.goals[key] # <<>>
                    /\ "player" \in DOMAIN p
                    /\ \/ p.player = Null
                       \/ /\ "name" \in DOMAIN p.player
                          /\ "team" \in DOMAIN stats
                          /\ \/ stats.team = Null
                             \/ /\ "name" \in DOMAIN stats.team
                                /\ "games" \in DOMAIN stats
                                /\ stats.games = Null

\* no KeyError or IndexError in lines 173-184
PlayerKeysPresent(p, key) ==
    /\ {"player", "statistics"} \subseteq DOMAIN p
    /\ p.statistics # <<>>
    /\ LET stats == p.statistics[1]
       IN  /\ {"team", "goals", "games"} \subseteq DOMAIN stats
           /\ key \in DOMAIN stats.goals
           /\ (stats.goals[key] # <<>> =>
                   /\ "name" \in DOMAIN p.player
                   /\ "name" \in DOMAIN stats.team
                   /\ "appearences" \in DOMAIN stats.games)

\* variant: x or 1
OrOne(x) == IF x = <<>> \/ x[1] = 0 THEN 1 ELSE x[1]

\* x or 0
OrZero(x) == IF x = <<>> \/ x[1] = 0 THEN 0 ELSE x[1]

\* variant: `if not stats["goals"][key]` in place of `is None`
PlayerKeptIfTruthy(p, key) ==
    /\ PlayerKeysPresent(p, key)
    /\ p.statistics[1].goals[key] # <<>>
    /\ p.statistics[1].goals[key][1] # 0

\* the record is appended: no error, and the metric is not None
PlayerKept(p, key) == PlayerKeysPresent(p, key) /\ p.statistics[1].goals[key] # <<>>

PlayerRow(p, key, metric) ==
    LET stats == p.statistics[1]
    IN  (metric :> stats.goals[key][1])
        @@ [player |-> p.player.name, team |-> stats.team.name,
            appearances |-> OrZero(stats.games.appearences)]

get_players(result, key, metric) ==
    IF result.none \/ result.list = <<>> THEN Raise                 \* lines 166, 213
    ELSE IF \E i \in 1..Len(result.list) : PlayerTypeError(result.list[i], key)
         THEN Raise                                                 \* lines 196, 243
    ELSE LET Keep(p) == PlayerKept(p, key)
             kept == SelectSeq(result.list, Keep)                   \* lines 171-187
             rows == [i \in 1..Len(kept) |-> PlayerRow(kept[i], key, metric)]
         IN  IF rows = <<>> THEN Raise                              \* lines 189, 236
             ELSE [raised |-> FALSE, df |-> DataFrame(rows)]

get_top_scorers(result) == get_players(result, "total", "goals")

get_top_assists(result) == get_players(result, "assists", "assists")

\* the parser of dataset d
Parser(d, result) ==
    IF Datasets[d] = "standings" THEN get_standings(result)
    ELSE IF Datasets[d] = "scorers" THEN get_top_scorers(result)
    ELSE get_top_assists(result)

(***************************************************************************)
(* The payloads (data["response"]) the API is taken to answer with.        *)
(***************************************************************************)
Team(name, w, d, l, pts) ==
    [rank |-> 1, team |-> [name |-> name], points |-> pts,
     all |-> [played |-> w + d + l, win |-> w, draw |-> d, lose |-> l,
              goals |-> [for |-> 2, against |-> 1]],
     goalsDiff |-> 1]

League(table) == <<[league |-> [standings |-> <<table>>]]>>

StandingsPayloads ==
    { <<>>,
      <<[league |-> [id |-> 39]]>>,
      League(<<>>),
      League(<<Team("A", 1, 1, 0, 4)>>),
      League(<<Team("A", 1, 1, 0, 4), Team("B", 0, 1, 1, 1)>>),
      League(<<Team("A", 1, 1, 0, 4), [rank |-> 2]>>),
      League(<<[rank |-> 1]>>),
      League(<<Team("A", 1, 1, 0, 5)>>),
      League(<<Team("A", 1, 1, 0, 4), Team("A", 0, 1, 1, 1)>>) }

Player(name, goals, assists, apps) ==
    [player |-> [name |-> name],
     statistics |-> <<[team |-> [name |-> "A"],
                       goals |-> [total |-> goals, assists |-> assists],
                       games |-> [appearences |-> apps]]>>]

PlayerPayloads ==
    { <<>>,
      <<Player("P", <<2>>, <<1>>, <<3>>)>>,
      <<Player("P", <<2>>, <<1>>, <<3>>), Player("Q", <<>>, <<>>, <<3>>)>>,
      <<Player("Q", <<>>, <<>>, <<3>>)>>,
      <<Player("P", <<2>>, <<1>>, <<3>>), [player |-> [name |-> "Q"], statistics |-> <<>>]>>,
      <<Player("P", <<2>>, <<1>>, <<3>>), Player("Q", <<1>>, <<1>>, <<>>)>>,
      <<Player("P", <<2>>, <<1>>, <<3>>), Player("P", <<2>>, <<1>>, <<3>>)>>,
      <<Player("P", <<0>>, <<0>>, <<1>>), Player("Q", <<1>>, <<2>>, <<0>>)>> }

Payloads(d) == IF Datasets[d] = "standings" THEN StandingsPayloads ELSE PlayerPayloads

(***************************************************************************)
(* EXPORT FUNCTION (exporting_data.py:186-225).  A destination table is    *)
(* <<>> when it does not exist and <<frame>> when it does.  fault names    *)
(* the statement of the transaction that fails, "none" if none does; the   *)
(* context manager engine.begin() rolls the transaction back on any error  *)
(* and commits when its block ends.                                        *)
(***************************************************************************)
Faults == {"none", "begin", "drop", "insert", "commit"}

WithTimestamp(frame) ==
    IF "exported_at" \in frame.cols THEN frame
    ELSE [cols |-> frame.cols \cup {"exported_at"},
          rows |-> [i \in 1..Len(frame.rows) |->
                        frame.rows[i] @@ ("exported_at" :> "utc_now")]]

\* IF OBJECT_ID(...) IS NOT NULL DROP TABLE ...
DropTable(t) == <<>>

\* CREATE TABLE of to_sql, before any row is inserted
CreateTable(frame) == <<[cols |-> frame.cols, rows |-> <<>>]>>

\* df.to_sql(if_exists=...): "replace" drops an existing table and creates it
\* anew, "append" inserts into an existing table
ToSql(t, frame, if_exists) ==
    IF t = <<>> \/ if_exists = "replace" THEN <<frame>>
    ELSE <<[cols |-> t[1].cols \cup frame.cols, rows |-> t[1].rows \o frame.rows]>>

\* variant: the transaction is left as the failing statement found it
RollbackNothing(snapshot, working) == working

\* engine.begin() leaving its block on an exception: the table is as it was
\* when the transaction began
Rollback(snapshot, working) == snapshot

\* variant: no drop statement, and to_sql(if_exists="append")
overwrite_appending(frame, old, fault) ==
    LET stamped == WithTimestamp(frame)
        written == ToSql(old, stamped, "append")
        working == IF fault \in {"begin", "drop", "insert"} THEN old ELSE written
    IN  IF fault = "none" THEN [ok |-> TRUE, table |-> written]
        ELSE [ok |-> FALSE, table |-> Rollback(old, working)]

overwrite(frame, old, fault) ==
    LET stamped == WithTimestamp(frame)                             \* lines 189-201
        dropped == DropTable(old)                                   \* line 207
        written == ToSql(dropped, stamped, "replace")               \* lines 210-218
        working == IF fault = "begin" THEN old                      \* line 206
                   ELSE IF fault = "drop" THEN old
                   ELSE IF fault = "insert" THEN CreateTable(stamped)
                   ELSE written
    IN  IF fault = "none" THEN [ok |-> TRUE, table |-> written]     \* line 221
        ELSE [ok |-> FALSE, table |-> Rollback(old, working)]       \* lines 223-225

\* what an earlier run left in a destination table
PreviousTable == <<[cols |-> {"exported_at"}, rows |-> <<[exported_at |-> "earlier"]>>]>>

(***************************************************************************)
(* The program: import of catching_data, then run_pipeline.                *)
(***************************************************************************)
NoVerdict == [result |-> FALSE, log |-> <<>>]

Init ==
    /\ apiKeySet \in BOOLEAN
    /\ configErrorLogged = FALSE
    /\ pc = "import"
    /\ ds = 1
    /\ max_retries = DefaultMaxRetries
    /\ attempt = 0
    /\ history = <<>>
    /\ slept = <<>>
    /\ apiResult = NoneResult
    /\ df = EmptyFrame
    /\ verdict = NoVerdict
    /\ dbConnected = FALSE
    /\ pipeline_success = FALSE
    /\ \E prev \in {<<>>, PreviousTable} : tables = [d \in 1..Len(Datasets) |-> prev]
    /\ fetchLog = <<>>
    /\ stage = [d \in 1..Len(Datasets) |-> "pending"]
    /\ returned = FALSE
    /\ exitCode = -1
    /\ calls = <<>>

\* catching_data.py:247-251 with validate_api_key: the ValueError is caught and logged
ImportModule ==
    /\ pc = "import"
    /\ configErrorLogged' = ~apiKeySet
    /\ pc' = "run"
    /\ UNCHANGED <<calls, apiKeySet, ds, max_retries, attempt, history, slept, apiResult, df,
                   verdict, dbConnected, pipeline_success, tables, fetchLog, stage,
                   returned, exitCode>>

\* get_*() is called for dataset d and calls api_get with the default max_retries
BeginDataset(d) ==
    /\ ds' = d
    /\ pc' = "fetch"
    /\ max_retries' = DefaultMaxRetries
    /\ attempt' = 0
    /\ history' = <<>>
    /\ slept' = <<>>
    /\ fetchLog' = Append(fetchLog, d)

\* the try block of dataset ds is left: the next one is entered, or the summary
NextDataset ==
    IF ds < Len(Datasets) THEN BeginDataset(ds + 1)
    ELSE /\ pc' = "summary"
         /\ UNCHANGED <<ds, max_retries, attempt, history, slept, fetchLog>>

\* exit(0 if success else 1)
ExitCodeOf(success) == IF success THEN 0 ELSE 1

\* run_pipeline, lines 232-240 and 303-306
RunPipelineStart ==
    /\ pc = "run"
    /\ pipeline_success' = TRUE
    /\ \E connects \in BOOLEAN :
          IF connects
          THEN /\ dbConnected' = TRUE
               /\ BeginDataset(1)
               /\ UNCHANGED <<returned, exitCode>>
          ELSE /\ returned' = FALSE
               /\ exitCode' = ExitCodeOf(FALSE)
               /\ pc' = "exit"
               /\ UNCHANGED <<dbConnected, ds, max_retries, attempt, history, slept,
                              fetchLog>>
    /\ UNCHANGED <<calls, apiKeySet, configErrorLogged, apiResult, df, verdict, tables, stage>>

\* one iteration of the loop of api_get, lines 49-90
ApiAttempt ==
    /\ pc = "fetch"
    /\ attempt < max_retries
    /\ \E r \in Responses(Payloads(ds)), jsonErrIsRequestException \in BOOLEAN :
          LET branch == Branch(r, jsonErrIsRequestException)
          IN  /\ history' = Append(history, r)
              /\ slept' = Append(slept, SleepAfter(branch, attempt, max_retries))
              /\ IF branch \in Retried
                 THEN /\ attempt' = attempt + 1
                      /\ UNCHANGED <<pc, apiResult>>
                 ELSE /\ apiResult' = Returned(branch, r)
                      /\ pc' = "parse"
                      /\ UNCHANGED attempt
    /\ UNCHANGED <<calls, apiKeySet, configErrorLogged, ds, max_retries, df, verdict,
                   dbConnected, pipeline_success, tables, fetchLog, stage, returned,
                   exitCode>>

\* the loop of api_get ends, lines 92-93
ApiExhausted ==
    /\ pc = "fetch"
    /\ attempt >= max_retries
    /\ apiResult' = NoneResult
    /\ pc' = "parse"
    /\ UNCHANGED <<calls, apiKeySet, configErrorLogged, ds, max_retries, attempt, history,
                   slept, df, verdict, dbConnected, pipeline_success, tables, fetchLog,
                   stage, returned, exitCode>>

\* variant: the parser's exception reaches the outer except of run_pipeline
ParseDatasetAborting ==
    /\ pc = "parse"
    /\ LET parsed == Parser(ds, apiResult)
       IN  IF parsed.raised
           THEN /\ pipeline_success' = FALSE
                /\ stage' = [stage EXCEPT ![ds] = "parse_error"]
                /\ returned' = FALSE
                /\ exitCode' = ExitCodeOf(FALSE)
                /\ pc' = "exit"
                /\ UNCHANGED <<df, ds, max_retries, attempt, history, slept, fetchLog>>
           ELSE /\ df' = parsed.df
                /\ pc' = "validate"
                /\ UNCHANGED <<pipeline_success, stage, ds, max_retries, attempt,
                               history, slept, fetchLog, returned, exitCode>>
    /\ UNCHANGED <<calls, apiKeySet, configErrorLogged, apiResult, verdict, dbConnected,
                   tables>>

\* the rest of get_*, and the except of run_pipeline when it raises
ParseDataset ==
    /\ pc = "parse"
    /\ LET parsed == Parser(ds, apiResult)
       IN  IF parsed.raised
           THEN /\ pipeline_success' = FALSE
                /\ stage' = [stage EXCEPT ![ds] = "parse_error"]
                /\ NextDataset
                /\ UNCHANGED df
           ELSE /\ df' = parsed.df
                /\ pc' = "validate"
                /\ UNCHANGED <<pipeline_success, stage, ds, max_retries, attempt,
                               history, slept, fetchLog>>
    /\ UNCHANGED <<calls, apiKeySet, configErrorLogged, apiResult, verdict, dbConnected,
                   tables, returned, exitCode>>

\* variant: the export is entered whatever the validator returned
ValidateDatasetIgnoringVerdict ==
    /\ pc = "validate"
    /\ verdict' = Validator(ds, df)
    /\ pc' = "export"
    /\ pipeline_success' = (pipeline_success /\ verdict'.result)
    /\ UNCHANGED <<stage, ds, max_retries, attempt, history, slept, fetchLog>>
    /\ UNCHANGED <<calls, apiKeySet, configErrorLogged, apiResult, df, dbConnected, tables,
                   returned, exitCode>>

\* if validate_*(df): ... else: pipeline_success = False
ValidateDataset ==
    /\ pc = "validate"
    /\ verdict' = Validator(ds, df)
    /\ IF verdict'.result
       THEN /\ pc' = "export"
            /\ UNCHANGED <<pipeline_success, stage, ds, max_retries, attempt, history,
                           slept, fetchLog>>
       ELSE /\ pipeline_success' = FALSE
            /\ stage' = [stage EXCEPT ![ds] = "invalid"]
            /\ NextDataset
    /\ UNCHANGED <<calls, apiKeySet, configErrorLogged, apiResult, df, dbConnected, tables,
                   returned, exitCode>>

\* variant: a false result of overwrite leaves pipeline_success alone
ExportDatasetIgnoringFailure ==
    /\ pc = "export"
    /\ \E fault \in Faults :
          LET written == overwrite(df, tables[ds], fault)
          IN  /\ tables' = [tables EXCEPT ![ds] = written.table]
              /\ stage' = [stage EXCEPT ![ds] = IF written.ok THEN "exported"
                                                ELSE "export_failed"]
              /\ UNCHANGED pipeline_success
    /\ NextDataset
    /\ UNCHANGED <<calls, apiKeySet, configErrorLogged, apiResult, df, verdict, dbConnected,
                   returned, exitCode>>

\* if overwrite(df, table, engine): ... else: pipeline_success = False
ExportDataset ==
    /\ pc = "export"
    /\ \E fault \in Faults :
          LET written == overwrite(df, tables[ds], fault)
          IN  /\ tables' = [tables EXCEPT ![ds] = written.table]
              /\ stage' = [stage EXCEPT ![ds] = IF written.ok THEN "exported"
                                                ELSE "export_failed"]
              /\ pipeline_success' = (pipeline_success /\ written.ok)
    /\ NextDataset
    /\ UNCHANGED <<calls, apiKeySet, configErrorLogged, apiResult, df, verdict, dbConnected,
                   returned, exitCode>>

\* run_pipeline, lines 293-301, and the entry point, lines 311-313
Summary ==
    /\ pc = "summary"
    /\ returned' = pipeline_success
    /\ exitCode' = ExitCodeOf(pipeline_success)
    /\ pc' = "exit"
    /\ UNCHANGED <<calls, apiKeySet, configErrorLogged, ds, max_retries, attempt, history,
                   slept, apiResult, df, verdict, dbConnected, pipeline_success, tables,
                   fetchLog, stage>>

Next ==
    \/ ImportModule
    \/ RunPipelineStart
    \/ ApiAttempt
    \/ ApiExhausted
    \/ ParseDataset
    \/ ValidateDataset
    \/ ExportDataset
    \/ Summary

Spec == Init /\ [][Next]_vars

(***************************************************************************)
(* A direct call api_get(endpoint, params, max_retries).                   *)
(***************************************************************************)
InitApi ==
    /\ apiKeySet = TRUE
    /\ configErrorLogged = FALSE
    /\ pc = "fetch"
    /\ ds \in 1..Len(Datasets)
    /\ max_retries \in 0..MaxBudget
    /\ attempt = 0
    /\ history = <<>>
    /\ slept = <<>>
    /\ apiResult = NoneResult
    /\ df = EmptyFrame
    /\ verdict = NoVerdict
    /\ dbConnected = FALSE
    /\ pipeline_success = FALSE
    /\ tables = [d \in 1..Len(Datasets) |-> <<>>]
    /\ fetchLog = <<>>
    /\ stage = [d \in 1..Len(Datasets) |-> "pending"]
    /\ returned = FALSE
    /\ exitCode = -1
    /\ calls = <<>>

NextApi ==
    \/ ApiAttempt
    \/ ApiExhausted

SpecApi == InitApi /\ [][NextApi]_vars

\* the loop runs in one thread; requests.get (timeout=10) and sleep return
FairSpecApi == SpecApi /\ WF_vars(NextApi)

(***************************************************************************)
(* A direct call of a validator on a table, as test_pipeline.py makes.     *)
(***************************************************************************)
StandingsTestRows ==
    { [rank |-> 1, team |-> name, points |-> s[1] * 3 + s[2] + off[1],
       played |-> s[1] + s[2] + s[3] + off[2], wins |-> s[1], draws |-> s[2],
       losses |-> s[3]] :
         name \in {"A", "B"},
         s \in {<<1, 1, 1>>, <<0, 1, 0>>, <<-1, 2, 0>>, <<2, 0, 1>>},
         off \in {<<0, 0>>, <<1, 0>>, <<0, 1>>} }

\* a consistent row of a team no other row names
FillerRow(i) ==
    [rank |-> i, team |-> "F" \o ToString(i), points |-> 4, played |-> 3,
     wins |-> 1, draws |-> 1, losses |-> 1]

StandingsColumnChoices ==
    {StandingsRequired, StandingsRequired \ {"points"}, StandingsRequired \ {"team"}, {}}

\* free rows, alone or followed by filler rows up to the expected league size
StandingsTestTables ==
    { [cols |-> cs,
       rows |-> [i \in 1..(IF fill THEN ExpectedTeams ELSE Len(free)) |->
                    Restrict(IF i <= Len(free) THEN free[i] ELSE FillerRow(i), cs)]] :
         cs \in StandingsColumnChoices,
         fill \in BOOLEAN,
         free \in UNION {[1..n -> StandingsTestRows] : n \in 0..MaxRows} }

PlayerTestRows(metric) ==
    { (metric :> m) @@ [player |-> name, team |-> "A", appearances |-> apps] :
         name \in {"P", "Q"}, m \in {-1, 0, 2}, apps \in {-1, 0, 3} }

PlayerColumnChoices(metric) ==
    {PlayerRequired(metric), PlayerRequired(metric) \ {metric},
     PlayerRequired(metric) \ {"appearances"}, {}}

PlayerTestTables(metric) ==
    { [cols |-> cs, rows |-> [i \in 1..Len(free) |-> Restrict(free[i], cs)]] :
         cs \in PlayerColumnChoices(metric),
         free \in UNION {[1..n -> PlayerTestRows(metric)] : n \in 0..MaxRows} }

TestTables(d) ==
    IF Datasets[d] = "standings" THEN StandingsTestTables ELSE PlayerTestTables(Metric(d))

InitValidate ==
    /\ apiKeySet = TRUE
    /\ configErrorLogged = FALSE
    /\ pc = "call_validator"
    /\ ds \in 1..Len(Datasets)
    /\ df \in TestTables(ds)
    /\ max_retries = DefaultMaxRetries
    /\ attempt = 0
    /\ history = <<>>
    /\ slept = <<>>
    /\ apiResult = NoneResult
    /\ verdict = NoVerdict
    /\ dbConnected = FALSE
    /\ pipeline_success = FALSE
    /\ tables = [d \in 1..Len(Datasets) |-> <<>>]
    /\ fetchLog = <<>>
    /\ stage = [d \in 1..Len(Datasets) |-> "pending"]
    /\ returned = FALSE
    /\ exitCode = -1
    /\ calls = <<>>

CallValidator ==
    /\ pc = "call_validator"
    /\ verdict' = Validator(ds, df)
    /\ pc' = "validator_returned"
    /\ UNCHANGED <<calls, apiKeySet, configErrorLogged, ds, max_retries, attempt, history,
                   slept, apiResult, df, dbConnected, pipeline_success, tables,
                   fetchLog, stage, returned, exitCode>>

NextValidate == CallValidator

SpecValidate == InitValidate /\ [][NextValidate]_vars

(***************************************************************************)
(* Properties of the validators, for SpecValidate.                          *)
(***************************************************************************)
ValidatorReturned(name) == pc = "validator_returned" /\ Datasets[ds] = name

\* what the contract of validate_standings accepts; the row count plays no part
StandingsAcceptable(t) ==
    /\ {"rank", "team", "points", "played", "wins", "draws", "losses"} \subseteq t.cols
    /\ \A i, j \in 1..Len(t.rows) : i # j => t.rows[i].team # t.rows[j].team
    /\ \A i \in 1..Len(t.rows) :
          LET row == t.rows[i]
          IN  /\ ~(row.points < 0)
              /\ row.points = row.wins * 3 + row.draws
              /\ row.played = row.wins + row.draws + row.losses

PlayersAcceptable(t, metric) ==
    /\ {"player", "team", metric, "appearances"} \subseteq t.cols
    /\ Len(t.rows) >= 1
    /\ \A i \in 1..Len(t.rows) : t.rows[i][metric] >= 0 /\ t.rows[i].appearances > 0

\* C2: validate_top_scorers (metric goals) and validate_top_assists (metric assists)
\* return true exactly when the required columns exist, the table has a row, every
\* metric is >= 0 and every appearances is > 0; duplicate players do not matter.
C2_PlayerValidatorsExact ==
    (pc = "validator_returned" /\ Datasets[ds] \in {"scorers", "assists"})
        => (verdict.result = PlayersAcceptable(df, Metric(ds)))

\* a table naming the same player twice is accepted by validate_top_scorers
C2_Witness ==
    /\ ValidatorReturned("scorers")
    /\ verdict.result
    /\ Len(df.rows) = 2
    /\ df.rows[1].player = df.rows[2].player

\* C3 as claimed: validate_standings returns false for every table with zero rows,
\* whether or not the required columns are present.
C3_EmptyStandingsRejected ==
    (ValidatorReturned("standings") /\ Len(df.rows) = 0) => ~verdict.result

(***************************************************************************)
(* Properties of api_get, for SpecApi and FairSpecApi.  The kinds of       *)
(* response are told from the response itself, not from the branch the     *)
(* code took.                                                              *)
(***************************************************************************)
IsRateLimited(r) == r.raises = "none" /\ r.status = 429

\* a timeout, or a transport-level failure: requests.get raised, or an HTTP error status
IsFailure(r) == r.raises # "none" \/ (r.status >= 400 /\ r.status # 429)

IsTransient(r) == IsRateLimited(r) \/ IsFailure(r)

\* a 200 response whose body is not JSON: how it is handled depends on the
\* installed requests, and it is none of the four kinds the contract names
IsUndecodable(r) == ~IsTransient(r) /\ ~r.decodes

IsValidPayload(r) ==
    /\ ~IsTransient(r)
    /\ r.decodes
    /\ "response" \in DOMAIN r.body
    /\ Len(r.body.response) = 1
    /\ ("errors" \in DOMAIN r.body => Len(r.body.errors) = 0)

IsInvalidPayload(r) == ~IsTransient(r) /\ r.decodes /\ ~IsValidPayload(r)

Covered == \A i \in 1..Len(history) : ~IsUndecodable(history[i])

ApiReturned == pc = "parse"

Decisive == {i \in 1..Len(history) : ~IsTransient(history[i])}

\* C4: api_get returns the results list of the first attempt that is neither
\* rate limited nor a timeout/transport failure if that attempt brought a valid
\* payload, and None if it brought a structurally invalid one or if all
\* max_retries attempts were rate limited or failed.
C4_ApiGetResult ==
    (ApiReturned /\ Covered) =>
        IF Decisive = {}
        THEN apiResult = NoneResult /\ Len(history) = max_retries
        ELSE LET first == CHOOSE i \in Decisive : \A j \in Decisive : i <= j
             IN  /\ first <= max_retries
                 /\ IF IsValidPayload(history[first])
                    THEN apiResult = [none |-> FALSE,
                                      list |-> history[first].body.response[1]]
                    ELSE apiResult = NoneResult

\* 429, 429, valid payload within a budget of 3: the payload is returned
C4_Witness ==
    /\ ApiReturned
    /\ max_retries = 3
    /\ Len(history) = 3
    /\ IsRateLimited(history[1])
    /\ IsRateLimited(history[2])
    /\ IsValidPayload(history[3])
    /\ ~apiResult.none
    /\ apiResult.list # <<>>

C5_RequestsBounded ==
    /\ Len(history) <= max_retries
    /\ \A i \in 1..Len(history) :
          i < Len(history) => ~IsValidPayload(history[i]) /\ ~IsInvalidPayload(history[i])

\* C5: a call issues at most max_retries requests, rate-limited ones included, none
\* of them after a payload that lacks the results field or carries a non-empty
\* errors field (or after any other decoded payload), and the call terminates.
C5_BoundedAndTerminates == []C5_RequestsBounded /\ <>ApiReturned

\* the whole budget of 3 is used by transient responses, one of them a 429
C5_Witness ==
    /\ ApiReturned
    /\ max_retries = 3
    /\ Len(history) = 3
    /\ \A i \in 1..3 : IsTransient(history[i])
    /\ IsRateLimited(history[2])
    /\ apiResult.none

\* number of the responses before position i that satisfy Kind
CountBefore(i, Kind(_)) == Cardinality({j \in 1..(i - 1) : Kind(history[j])})

\* C6 as claimed: the delay after a timeout/transport failure depends only on how
\* many timeout/transport failures preceded it (429 then timeout: 2^0).
C6_BackoffIgnoresRateLimits ==
    Covered =>
        \A i \in 1..Len(history) :
            (IsFailure(history[i]) /\ i < max_retries)
                => slept[i] = 2 ^ CountBefore(i, IsFailure)

\* C6 as amended: a rate-limited attempt counts toward the attempt budget and
\* toward the exponent alike: the delay after a timeout/transport failure that is
\* not the last attempt is 2^(earlier failures + earlier 429s) (429 then timeout: 2^1).
C6_BackoffCountsRateLimits ==
    Covered =>
        /\ CountBefore(Len(history) + 1, IsRateLimited) <= max_retries
        /\ \A i \in 1..Len(history) :
              (IsFailure(history[i]) /\ i < max_retries)
                  => slept[i] = 2 ^ (CountBefore(i, IsFailure)
                                     + CountBefore(i, IsRateLimited))

\* 429 then timeout with an attempt left: two seconds are slept
C6_Witness ==
    /\ Len(history) >= 2
    /\ max_retries >= 3
    /\ IsRateLimited(history[1])
    /\ history[2].raises = "Timeout"
    /\ slept[2] = 2

\* C7: after a timeout/transport failure on zero-based attempt i the fetcher sleeps
\* 2^i seconds if i < max_retries - 1 and does not sleep if it was the final
\* attempt; after a 429 it sleeps the fixed 60 seconds.
C7_SleepSchedule ==
    /\ Len(slept) = Len(history)
    /\ \A n \in 1..Len(history) :
          LET i == n - 1
          IN  /\ IsFailure(history[n]) =>
                    slept[n] = (IF i < max_retries - 1 THEN 2 ^ i ELSE 0)
              /\ IsRateLimited(history[n]) => slept[n] = 60

\* three failures within a budget of 3: 1 s, 2 s, then no sleep after the last
C7_Witness ==
    /\ max_retries = 3
    /\ Len(history) = 3
    /\ \A n \in 1..3 : IsFailure(history[n])
    /\ slept = <<1, 2, 0>>

(***************************************************************************)
(* Properties of the run, for Spec.                                        *)
(***************************************************************************)
\* C8 as claimed: with API_FOOTBALL_KEY unset no HTTP request is issued and no
\* dataset is fetched.
C8_NoFetchWithoutApiKey ==
    ~apiKeySet => (history = <<>> /\ fetchLog = <<>>)

AllSucceeded == dbConnected /\ \A d \in 1..3 : stage[d] = "exported"

\* C9: run_pipeline returns true, and the exit code is 0, exactly when the database
\* connection was established and all three datasets were fetched and parsed,
\* validated and exported; otherwise it returns false and the exit code is 1.
C9_ExitCode ==
    pc = "exit" =>
        /\ returned = AllSucceeded
        /\ exitCode = (IF AllSucceeded THEN 0 ELSE 1)

\* a run with the key set, the database connected and three exports: exit code 0
C9_Witness == apiKeySet /\ pc = "exit" /\ exitCode = 0 /\ returned /\ AllSucceeded

\* C10: with the database connected, the three datasets are fetched in the order
\* standings, scorers, assists, each with at least one request, whatever happened
\* to the datasets before.
C10_AllDatasetsFetched ==
    /\ dbConnected =>
          /\ Len(fetchLog) <= 3
          /\ \A i \in 1..Len(fetchLog) :
                Datasets[fetchLog[i]] = <<"standings", "scorers", "assists">>[i]
          /\ ds = fetchLog[Len(fetchLog)]
    /\ (dbConnected /\ pc \in {"parse", "validate", "export"}) => history # <<>>
    /\ (dbConnected /\ pc \in {"summary", "exit"}) =>
          /\ Len(fetchLog) = 3
          /\ \A d \in 1..3 : stage[d] # "pending"

\* standings failed to parse, scorers failed validation, assists were exported
C10_Witness ==
    /\ apiKeySet
    /\ pc = "exit"
    /\ stage = <<"parse_error", "invalid", "exported">>
    /\ tables[3] # <<>>
    /\ "assists" \in tables[3][1].cols

\* a destination table no export of this run has replaced
Untouched(d) == tables[d] = <<>> \/ tables[d] = PreviousTable

C11_Order ==
    /\ \A d \in 1..3 : stage[d] # "exported" => Untouched(d)
    /\ pc \in {"fetch", "parse", "validate", "export"} =>
          \A d \in 1..3 : (d < ds => stage[d] # "pending")
                          /\ (d >= ds => stage[d] = "pending")

C11_Step ==
    \A d \in 1..3 :
        /\ stage'[d] # stage[d] => d = ds
        /\ tables'[d] # tables[d] =>
              /\ pc = "export" /\ ds = d
              /\ ~Parser(d, apiResult).raised
              /\ df = Parser(d, apiResult).df
              /\ verdict = Validator(d, df)
              /\ verdict.result
              /\ Len(tables'[d][1].rows) = Len(df.rows)

\* C11: a destination table is replaced only in the export step of its own dataset,
\* after the parser returned a table and the validator returned true on that table;
\* a dataset that failed to fetch, parse or validate keeps its previous table; and
\* the stages of a dataset are over before a stage of the next one starts.
C11_ExportOnlyValidated == []C11_Order /\ [][C11_Step]_vars

\* standings failed validation and assists failed to parse: their tables are the
\* previous ones, the scorers table between them was replaced
C11_Witness ==
    /\ pc = "exit"
    /\ stage = <<"invalid", "exported", "parse_error">>
    /\ tables[1] = PreviousTable
    /\ tables[3] = PreviousTable
    /\ tables[2] # PreviousTable

(***************************************************************************)
(* A parser called on its own, on the list api_get returned.  The records  *)
(* are complete, or have a null metric, an empty statistics list or a      *)
(* missing key, or hold None where a nested object belongs.                *)
(***************************************************************************)
MaxRecords == 2

SeqsUpTo(S, n) == UNION {[1..k -> S] : k \in 0..n}

FullStats == [team |-> [name |-> "A"], goals |-> [total |-> <<1>>, assists |-> <<1>>],
              games |-> [appearences |-> <<2>>]]

PlayerRecords ==
    { Player("P", <<2>>, <<1>>, <<3>>),
      Player("Q", <<0>>, <<0>>, <<1>>),
      Player("N", <<>>, <<>>, <<3>>),
      Player("N", <<>>, <<1>>, <<3>>),
      Player("Z", <<1>>, <<1>>, <<>>),
      [player |-> [name |-> "K"]],
      [player |-> [name |-> "K"], statistics |-> <<>>],
      [player |-> [name |-> "K"],
       statistics |-> <<[team |-> [name |-> "A"],
                         goals |-> [total |-> <<1>>, assists |-> <<1>>]]>>],
      [statistics |-> <<FullStats>>],
      [player |-> [name |-> "K"], statistics |-> <<Null>>],
      [player |-> [name |-> "K"],
       statistics |-> <<[team |-> [name |-> "A"], goals |-> Null,
                         games |-> [appearences |-> <<2>>]]>>],
      [player |-> Null, statistics |-> <<FullStats>>] }

StandingsRecords ==
    { Team("A", 1, 1, 0, 4),
      Team("B", 0, 1, 1, 1),
      [rank |-> 2],
      [rank |-> 3, team |-> [name |-> "C"], points |-> 1,
       all |-> [played |-> 1, win |-> 0, draw |-> 1, lose |-> 0], goalsDiff |-> 0],
      [rank |-> 4, team |-> Null, points |-> 1,
       all |-> [played |-> 1, win |-> 0, draw |-> 1, lose |-> 0,
                goals |-> [for |-> 2, against |-> 1]],
       goalsDiff |-> 0],
      [rank |-> 5, team |-> [name |-> "D"], points |-> 1, all |-> Null, goalsDiff |-> 0] }

ParseInputs(d) ==
    IF Datasets[d] = "standings"
    THEN {<<>>, <<[league |-> [id |-> 39]]>>}
         \cup {League(t) : t \in SeqsUpTo(StandingsRecords, MaxRecords)}
    ELSE SeqsUpTo(PlayerRecords, MaxRecords)

InitParse ==
    /\ apiKeySet = TRUE
    /\ configErrorLogged = FALSE
    /\ pc = "call_parser"
    /\ ds \in 1..Len(Datasets)
    /\ apiResult \in {NoneResult} \cup {[none |-> FALSE, list |-> l] : l \in ParseInputs(ds)}
    /\ df = EmptyFrame
    /\ max_retries = DefaultMaxRetries
    /\ attempt = 0
    /\ history = <<>>
    /\ slept = <<>>
    /\ verdict = NoVerdict
    /\ dbConnected = FALSE
    /\ pipeline_success = FALSE
    /\ tables = [d \in 1..Len(Datasets) |-> <<>>]
    /\ fetchLog = <<>>
    /\ stage = [d \in 1..Len(Datasets) |-> "pending"]
    /\ returned = FALSE
    /\ exitCode = -1
    /\ calls = <<>>

CallParser ==
    /\ pc = "call_parser"
    /\ LET parsed == Parser(ds, apiResult)
       IN  /\ df' = parsed.df
           /\ pc' = IF parsed.raised THEN "parser_raised" ELSE "parser_returned"
    /\ UNCHANGED <<calls, apiKeySet, configErrorLogged, ds, max_retries, attempt, history,
                   slept, apiResult, verdict, dbConnected, pipeline_success, tables,
                   fetchLog, stage, returned, exitCode>>

NextParse == CallParser

SpecParse == InitParse /\ [][NextParse]_vars

\* the key of the goals block a player parser reads
MetricKey(d) == IF Datasets[d] = "scorers" THEN "total" ELSE "assists"

\* the records a parser iterates over
RecordsOf(d, result) ==
    IF result.none \/ result.list = <<>> THEN <<>>
    ELSE IF Datasets[d] # "standings" THEN result.list
    ELSE IF "league" \in DOMAIN result.list[1]
            /\ "standings" \in DOMAIN result.list[1].league
            /\ result.list[1].league.standings # <<>>
         THEN result.list[1].league.standings[1]
         ELSE <<>>

\* a record that holds None where a nested object belongs: not one of the kinds
\* of record the claim speaks of
HoldsNullObject(r) ==
    \/ \E k \in DOMAIN r \cap {"team", "all", "player"} : r[k] = Null
    \/ "all" \in DOMAIN r /\ r.all # Null /\ "goals" \in DOMAIN r.all /\ r.all.goals = Null
    \/ /\ "statistics" \in DOMAIN r
       /\ \E i \in 1..Len(r.statistics) :
             \/ r.statistics[i] = Null
             \/ \E k \in DOMAIN r.statistics[i] \cap {"team", "goals", "games"} :
                   r.statistics[i][k] = Null

\* every key the row is built from is there
TeamComplete(t) ==
    /\ {"rank", "team", "points", "all", "goalsDiff"} \subseteq DOMAIN t
    /\ "name" \in DOMAIN t.team
    /\ {"played", "win", "draw", "lose", "goals"} \subseteq DOMAIN t.all
    /\ {"for", "against"} \subseteq DOMAIN t.all.goals

PlayerComplete(p, key) ==
    /\ {"player", "statistics"} \subseteq DOMAIN p
    /\ Len(p.statistics) >= 1
    /\ "name" \in DOMAIN p.player
    /\ {"team", "goals", "games"} \subseteq DOMAIN p.statistics[1]
    /\ "name" \in DOMAIN p.statistics[1].team
    /\ key \in DOMAIN p.statistics[1].goals
    /\ "appearences" \in DOMAIN p.statistics[1].games

NullMetric(p, key) ==
    /\ "statistics" \in DOMAIN p
    /\ Len(p.statistics) >= 1
    /\ "goals" \in DOMAIN p.statistics[1]
    /\ key \in DOMAIN p.statistics[1].goals
    /\ p.statistics[1].goals[key] = <<>>

\* the row the claim expects of record number i of dataset d
ExpectedRow(d, r) ==
    IF Datasets[d] = "standings"
    THEN [rank |-> r.rank, team |-> r.team.name, points |-> r.points,
          played |-> r.all.played, wins |-> r.all.win, draws |-> r.all.draw,
          losses |-> r.all.lose, goals_for |-> r.all.goals.for,
          goals_against |-> r.all.goals.against, goal_difference |-> r.goalsDiff]
    ELSE LET stats == r.statistics[1]
         IN  (Metric(d) :> stats.goals[MetricKey(d)][1])
             @@ [player |-> r.player.name, team |-> stats.team.name,
                 appearances |-> IF stats.games.appearences = <<>> THEN 0
                                 ELSE stats.games.appearences[1]]

Extractable(d, r) ==
    IF Datasets[d] = "standings" THEN TeamComplete(r)
    ELSE PlayerComplete(r, MetricKey(d)) /\ ~NullMetric(r, MetricKey(d))

ExpectedRows(d, result) ==
    LET Keep(r) == Extractable(d, r)
        kept == SelectSeq(RecordsOf(d, result), Keep)
    IN  [i \in 1..Len(kept) |-> ExpectedRow(d, kept[i])]

ParserDone == pc \in {"parser_returned", "parser_raised"}

ClaimKinds(d, result) ==
    \A i \in 1..Len(RecordsOf(d, result)) : ~HoldsNullObject(RecordsOf(d, result)[i])

MaxCalls == 3

ExportFrames(d) ==
    {Parser(d, [none |-> FALSE, list |-> l]).df :
        l \in {m \in Payloads(d) : ~Parser(d, [none |-> FALSE, list |-> m]).raised}}

InitExport ==
    /\ apiKeySet = TRUE
    /\ configErrorLogged = FALSE
    /\ pc = "call_overwrite"
    /\ ds \in 1..Len(Datasets)
    /\ tables \in {[d \in 1..Len(Datasets) |-> <<>>],
                   [d \in 1..Len(Datasets) |-> PreviousTable]}
    /\ df = EmptyFrame
    /\ apiResult = NoneResult
    /\ max_retries = DefaultMaxRetries
    /\ attempt = 0
    /\ history = <<>>
    /\ slept = <<>>
    /\ verdict = NoVerdict
    /\ dbConnected = TRUE
    /\ pipeline_success = FALSE
    /\ fetchLog = <<>>
    /\ stage = [d \in 1..Len(Datasets) |-> "pending"]
    /\ returned = FALSE
    /\ exitCode = -1
    /\ calls = <<>>

CallOverwrite ==
    /\ pc \in {"call_overwrite", "overwrite_returned"}
    /\ Len(calls) < MaxCalls
    /\ \E frame \in ExportFrames(ds), fault \in Faults :
          LET written == overwrite(frame, tables[ds], fault)
          IN  /\ tables' = [tables EXCEPT ![ds] = written.table]
              /\ calls' = Append(calls, [df |-> frame, fault |-> fault, ok |-> written.ok])
              /\ df' = frame
              /\ stage' = [stage EXCEPT ![ds] = IF written.ok THEN "exported"
                                                ELSE "export_failed"]
    /\ pc' = "overwrite_returned"
    /\ UNCHANGED <<apiKeySet, configErrorLogged, ds, max_retries, attempt, history,
                   slept, apiResult, verdict, dbConnected, pipeline_success,
                   fetchLog, returned, exitCode>>

NextExport == CallOverwrite

SpecExport == InitExport /\ [][NextExport]_vars

LastCall == calls[Len(calls)]

\* the table read back holds the rows of frame, in order, and the timestamp column
ReadsBackAs(t, frame) ==
    /\ t # <<>>
    /\ t[1].cols = frame.cols \cup {"exported_at"}
    /\ Len(t[1].rows) = Len(frame.rows)
    /\ \A i \in 1..Len(frame.rows) :
          /\ DOMAIN t[1].rows[i] = frame.cols \cup {"exported_at"}
          /\ \A c \in frame.cols : t[1].rows[i][c] = frame.rows[i][c]

\* C13: after a successful overwrite the table reads back as the input of that
\* call, with its row count and column values and the timestamp column, whatever
\* the earlier calls wrote; so a second call with the same input leaves the row
\* count of the first.
C13_LastWriteWins ==
    (pc = "overwrite_returned" /\ LastCall.ok) => ReadsBackAs(tables[ds], LastCall.df)

\* a table of two rows was written, then a table of one row twice: one row is left
C13_Witness ==
    /\ pc = "overwrite_returned"
    /\ Len(calls) = 3
    /\ \A i \in 1..3 : calls[i].ok
    /\ Len(calls[1].df.rows) = 2
    /\ calls[2].df = calls[3].df
    /\ Len(calls[3].df.rows) = 1
    /\ Len(tables[ds][1].rows) = 1

\* an overwrite call that failed has just returned
OverwriteFailed == calls' # calls /\ ~calls'[Len(calls')].ok

C14_Step ==
    OverwriteFailed =>
        /\ pc' = "overwrite_returned"
        /\ stage'[ds] = "export_failed"
        /\ \A d \in 1..Len(Datasets) : tables'[d] = tables[d]

\* C14: an overwrite call that fails, at engine.begin(), at the drop, during the
\* insert or at the commit, returns false without raising and leaves the three
\* destination tables as they were before the call.
C14_FailedOverwriteRollsBack == [][C14_Step]_vars

\* the first call wrote two rows, the second failed during the insert, after the
\* drop: the two rows are still there and the other tables are the earlier ones
C14_Witness ==
    /\ pc = "overwrite_returned"
    /\ Len(calls) = 2
    /\ calls[1].ok
    /\ Len(calls[1].df.rows) = 2
    /\ calls[2].fault = "insert"
    /\ ~calls[2].ok
    /\ Len(calls[2].df.rows) = 1
    /\ ReadsBackAs(tables[ds], calls[1].df)
    /\ \A d \in 1..Len(Datasets) \ {ds} : tables[d] = PreviousTable

\* a player record with a metric and with an appearance count of null or zero
ZeroAppearance(p, key) ==
    /\ PlayerComplete(p, key)
    /\ ~NullMetric(p, key)
    /\ \/ p.statistics[1].games.appearences = <<>>
       \/ p.statistics[1].games.appearences = <<0>>

PlayerDataset == Datasets[ds] \in {"scorers", "assists"}

\* the parser returned: each such record is a row with appearances = 0
C15_Kept ==
    (pc = "validate" /\ PlayerDataset) =>
        \A j \in 1..Len(apiResult.list) :
            ZeroAppearance(apiResult.list[j], MetricKey(ds)) =>
                \E i \in 1..Len(df.rows) :
                    /\ df.rows[i].player = apiResult.list[j].player.name
                    /\ df.rows[i][Metric(ds)]
                           = apiResult.list[j].statistics[1].goals[MetricKey(ds)][1]
                    /\ df.rows[i].appearances = 0

\* the validator rejects the table and the dataset is given up without an export
C15_Rejected ==
    (pc = "validate" /\ PlayerDataset
     /\ \E i \in 1..Len(df.rows) : df.rows[i].appearances = 0) =>
        /\ ~verdict'.result
        /\ pc' # "export"
        /\ stage'[ds] = "invalid"
        /\ ~pipeline_success'
        /\ tables' = tables

\* a rejected dataset stays rejected, its table is not written, and the result of
\* the run stays false
C15_Sticky ==
    /\ \A d \in 1..Len(Datasets) :
          stage[d] = "invalid" => stage'[d] = "invalid" /\ tables'[d] = tables[d]
    /\ (pc \in {"fetch", "parse", "validate", "export", "summary"} /\ ~pipeline_success)
          => ~pipeline_success'

C15_Final ==
    (pc = "exit" /\ \E d \in 1..Len(Datasets) : stage[d] = "invalid") =>
        ~returned /\ exitCode = 1

\* C15: a player with a metric and a null or zero appearance count is parsed into
\* a row with appearances = 0; validate_top_scorers / validate_top_assists reject
\* every table with such a row, so the dataset is not exported, its table is left
\* alone and run_pipeline returns false, whatever the other rows are.
C15_ZeroAppearanceFailsDataset ==
    []C15_Kept /\ []C15_Final /\ [][C15_Rejected /\ C15_Sticky]_vars

\* standings were exported; the scorers held a valid player and one with null or
\* zero appearances: the scorers were rejected and their table is the earlier one
C15_Witness ==
    /\ apiKeySet
    /\ pc = "fetch"
    /\ Datasets[ds] = "assists"
    /\ stage = <<"exported", "invalid", "pending">>
    /\ Len(df.rows) = 2
    /\ df.rows[1].appearances > 0
    /\ df.rows[2].appearances = 0
    /\ df.rows[2].goals > 0
    /\ ~verdict.result
    /\ ~pipeline_success
    /\ tables[2] = PreviousTable

====
